---------------------------- MODULE Spec2Model ----------------------------
(***************************************************************************)
(* spice2json: the mapping of a compiled SpiceDB schema (object            *)
(* definitions, relations, permissions with their userset rewrite trees,   *)
(* caveats, doc comments) onto the exported JSON document model.           *)
(*                                                                         *)
(* Every mapping function of main.go is an operator here, computed the way *)
(* the Go code computes it (loops are recursions over the index).  Where   *)
(* mapSchema.go holds a different version of a function (the comment       *)
(* extractor, the caveat mapper) that version is the operator prefixed     *)
(* mapSchema_.  Each specification draws an input of one function in Init  *)
(* and has one action per version of the function that calls it.  Strings  *)
(* the code only copies are TLA+ strings; strings the code takes apart     *)
(* (definition names, comment payloads) are sequences of one-character     *)
(* strings.                                                                *)
(***************************************************************************)
EXTENDS Integers, Sequences, FiniteSets

VARIABLES
    input,      \* the argument of the call under way
    result,     \* what the call returned (Nil before it returns)
    w,          \* the io.Writer handed to WriteSchemaTo: the chunks written
    pc          \* "call" before the function ran, "done" after

vars == <<input, result, w, pc>>

\* A nil pointer / nil interface / nil error.
Nil == [nil |-> TRUE]

(***************************************************************************)
(* Bounds of the model.                                                    *)
(***************************************************************************)
MaxNameLen == 3      \* characters in a qualified definition name
MaxRels == 2         \* relations declared on one definition
MaxDefs == 2         \* object definitions in one compiled schema
MaxTypes == 2        \* allowed direct relations of one relation
MaxOps == 3          \* child operations in one rewrite tree, all levels
MaxMsgs == 2         \* attachments in one metadata bag
MaxValueLen == 4     \* bytes in one attachment's payload

(***************************************************************************)
(* Strings as character sequences.                                         *)
(***************************************************************************)
\* All sequences over S of length at most n.
SeqUpTo(S, n) == UNION {[1..k -> S] : k \in 0..n}

IsSpace(c) == c \in {" ", "\n"}

RECURSIVE TrimLeft(_)
TrimLeft(s) ==
    IF s # <<>> /\ IsSpace(Head(s)) THEN TrimLeft(Tail(s)) ELSE s

RECURSIVE TrimRight(_)
TrimRight(s) ==
    IF s # <<>> /\ IsSpace(s[Len(s)])
    THEN TrimRight(SubSeq(s, 1, Len(s) - 1))
    ELSE s

\* strings.TrimSpace
TrimSpace(s) == TrimRight(TrimLeft(s))

\* strings.Index(s, sep) for a one-character sep, 1-based; 0 when absent.
Index(s, sep) ==
    IF \E i \in 1..Len(s) : s[i] = sep
    THEN CHOOSE i \in 1..Len(s) :
            s[i] = sep /\ \A j \in 1..(i - 1) : s[j] # sep
    ELSE 0

SplitNLast(s, sep) ==
    IF \E i \in 1..Len(s) : s[i] = sep
    THEN LET i == CHOOSE k \in 1..Len(s) :
                     s[k] = sep /\ \A j \in (k + 1)..Len(s) : s[j] # sep
         IN  <<SubSeq(s, 1, i - 1), SubSeq(s, i + 1, Len(s))>>
    ELSE <<s>>

\* strings.SplitN(s, sep, 2): at most two pieces, cut at the first sep.
SplitN(s, sep) ==
    LET i == Index(s, sep)
    IN  IF i = 0
        THEN <<s>>
        ELSE <<SubSeq(s, 1, i - 1), SubSeq(s, i + 1, Len(s))>>

(***************************************************************************)
(* Comment extractor.                                                      *)
(***************************************************************************)
DocCommentUrl == "type.googleapis.com/impl.v1.DocComment"

\* metaData.GetMetadataMessage(): the getter is nil-safe.
GetMetadataMessage(metaData) ==
    IF metaData = Nil THEN <<>> ELSE metaData.metadataMessage

\* d.GetValue()[2:] panics (slice bounds out of range) when the payload
\* holds fewer than two bytes.
getMetadataCommentsPanics(metaData) ==
    LET msgs == GetMetadataMessage(metaData)
    IN  \E i \in 1..Len(msgs) :
            msgs[i].typeUrl = DocCommentUrl /\ Len(msgs[i].value) < 2

RECURSIVE getMetadataCommentsLoop(_, _, _)
getMetadataCommentsLoop(msgs, i, comment) ==
    IF i > Len(msgs)
    THEN comment
    ELSE IF msgs[i].typeUrl = DocCommentUrl
         THEN getMetadataCommentsLoop(msgs, i + 1,
                  comment \o SubSeq(msgs[i].value, 3, Len(msgs[i].value))
                          \o <<"\n">>)
         ELSE getMetadataCommentsLoop(msgs, i + 1, comment)

\* The string getMetadataComments returns when it does not panic.
getMetadataComments(metaData) ==
    TrimSpace(getMetadataCommentsLoop(GetMetadataMessage(metaData), 1, <<>>))

\* s[i], or "" past the end of s.
At(s, i) == IF i <= Len(s) THEN s[i] ELSE ""

\* The length of the match of commentRegex,
\*   (/[*]{1,2} ?|// ?| ?[*] | ?[*]?/),
\* that starts at s[i], 0 when none does: the first alternative that
\* matches wins, its quantifiers greedy.
commentRegexMatch(s, i) ==
    LET opt(j, c) == IF At(s, j) = c THEN 1 ELSE 0
    IN  IF At(s, i) = "/" /\ At(s, i + 1) = "*"
        THEN 2 + opt(i + 2, "*") + opt(i + 2 + opt(i + 2, "*"), " ")
        ELSE IF At(s, i) = "/" /\ At(s, i + 1) = "/"
        THEN 2 + opt(i + 2, " ")
        ELSE IF At(s, i) = " " /\ At(s, i + 1) = "*" /\ At(s, i + 2) = " "
        THEN 3
        ELSE IF At(s, i) = "*" /\ At(s, i + 1) = " "
        THEN 2
        ELSE IF At(s, i) = " " /\ At(s, i + 1) = "*" /\ At(s, i + 2) = "/"
        THEN 3
        ELSE IF At(s, i) = " " /\ At(s, i + 1) = "/"
        THEN 2
        ELSE IF At(s, i) = "*" /\ At(s, i + 1) = "/"
        THEN 2
        ELSE IF At(s, i) = "/"
        THEN 1
        ELSE 0

\* commentRegex.ReplaceAllString(s, ""), from position i on.
RECURSIVE ReplaceAllString(_, _)
ReplaceAllString(s, i) ==
    IF i > Len(s)
    THEN <<>>
    ELSE LET m == commentRegexMatch(s, i)
         IN  IF m > 0
             THEN ReplaceAllString(s, i + m)
             ELSE <<s[i]>> \o ReplaceAllString(s, i + 1)

RECURSIVE mapSchema_getMetadataCommentsLoop(_, _, _)
mapSchema_getMetadataCommentsLoop(msgs, i, comment) ==
    IF i > Len(msgs)
    THEN comment
    ELSE IF msgs[i].typeUrl = DocCommentUrl
         THEN mapSchema_getMetadataCommentsLoop(msgs, i + 1,
                  comment
                  \o ReplaceAllString(
                         SubSeq(msgs[i].value, 3, Len(msgs[i].value)), 1)
                  \o <<"\n">>)
         ELSE mapSchema_getMetadataCommentsLoop(msgs, i + 1, comment)

\* mapSchema.go: the string its getMetadataComments returns when it does
\* not panic; the comment decoration is stripped.
mapSchema_getMetadataComments(metaData) ==
    TrimSpace(mapSchema_getMetadataCommentsLoop(
                  GetMetadataMessage(metaData), 1, <<>>))

(***************************************************************************)
(* Type reference mapper and relation mapper.                              *)
(***************************************************************************)
mapRelationTypeKeepEllipsis(relationType) ==
    [type     |-> relationType.namespace,
     relation |-> IF relationType.relationOrWildcard.kind # "relation"
                  THEN "*"
                  ELSE relationType.relationOrWildcard.relation,
     caveat   |-> IF relationType.requiredCaveat # Nil
                  THEN relationType.requiredCaveat.caveatName
                  ELSE ""]

mapRelationType(relationType) ==
    LET ok == relationType.relationOrWildcard.kind = "relation"
        relationName ==
            IF ~ok
            THEN "*"
            ELSE IF relationType.relationOrWildcard.relation = "..."
                 THEN ""
                 ELSE relationType.relationOrWildcard.relation
        caveatName ==
            IF relationType.requiredCaveat # Nil
            THEN relationType.requiredCaveat.caveatName
            ELSE ""
    IN  [type     |-> relationType.namespace,
         relation |-> relationName,
         caveat   |-> caveatName]

mapRelation(relation) ==
    LET allowed == relation.typeInformation.allowedDirectRelations
    IN  [name    |-> relation.name,
         comment |-> getMetadataComments(relation.metadata),
         types   |-> [i \in 1..Len(allowed) |-> mapRelationType(allowed[i])]]

(***************************************************************************)
(* Rewrite-tree mapper.  A rewrite rule is [op, child]: op names the       *)
(* populated operator of the oneof ("none" when no operator is set) and    *)
(* child is the operator's child list.  A child operation is a record      *)
(* whose kind names the populated shape of its oneof: "computed",          *)
(* "tuple", "rewrite", or "none".  A UserSet is [operation, relation,      *)
(* permission, children]; Nil is the nil *UserSet.                         *)
(***************************************************************************)
\* The nil-safe oneof getters of corev1.UsersetRewrite.
GetUnion(userset) ==
    IF userset # Nil /\ userset.op = "union" THEN userset ELSE Nil
GetIntersection(userset) ==
    IF userset # Nil /\ userset.op = "intersection" THEN userset ELSE Nil
GetExclusion(userset) ==
    IF userset # Nil /\ userset.op = "exclusion" THEN userset ELSE Nil

\* The nil-safe oneof getters of corev1.SetOperation_Child.
GetComputedUserset(child) ==
    IF child.kind = "computed" THEN child ELSE Nil
GetTupleToUserset(child) ==
    IF child.kind = "tuple" THEN child ELSE Nil
GetUsersetRewrite(child) ==
    IF child.kind = "rewrite" THEN child.rewrite ELSE Nil

\* &UserSet{...}: the fields not named keep their zero value.
UserSet(operation, relation, permission, children) ==
    [operation |-> operation, relation |-> relation,
     permission |-> permission, children |-> children]

RECURSIVE mapUserSet(_)
RECURSIVE mapUserSetChild(_)
RECURSIVE mapUserSetChildLoop(_, _, _)

\* Mutation: an operator node over a single direct reference also carries
\* that reference's relation.
mapUserSetTagged(userset) ==
    LET op == IF userset = Nil THEN "none" ELSE userset.op
    IN  IF op = "none"
        THEN Nil
        ELSE UserSet(op,
                     IF Len(userset.child) = 1
                        /\ userset.child[1].kind = "computed"
                     THEN userset.child[1].relation
                     ELSE "",
                     "",
                     mapUserSetChild(userset.child))

mapUserSet(userset) ==
    IF GetUnion(userset) # Nil
    THEN UserSet("union", "", "",
                 mapUserSetChild(GetUnion(userset).child))
    ELSE IF GetIntersection(userset) # Nil
    THEN UserSet("intersection", "", "",
                 mapUserSetChild(GetIntersection(userset).child))
    ELSE IF GetExclusion(userset) # Nil
    THEN UserSet("exclusion", "", "",
                 mapUserSetChild(GetExclusion(userset).child))
    ELSE Nil

\* One pass of the loop body of mapUserSetChild: three independent ifs,
\* each appending to sets.
mapUserSetChildLoop(children, i, sets) ==
    IF i > Len(children)
    THEN sets
    ELSE LET child == children[i]
             computed == GetComputedUserset(child)
             s1 == IF computed # Nil
                   THEN Append(sets, UserSet("", computed.relation, "", <<>>))
                   ELSE sets
             tuple == GetTupleToUserset(child)
             s2 == IF tuple # Nil
                   THEN Append(s1, UserSet("", tuple.tupleset.relation,
                                           tuple.computedUserset.relation,
                                           <<>>))
                   ELSE s1
             set == GetUsersetRewrite(child)
             s3 == IF set # Nil
                   THEN Append(s2, mapUserSet(set))
                   ELSE s2
         IN  mapUserSetChildLoop(children, i + 1, s3)

\* Mutation: each mapped child is put in front of the ones before it.
RECURSIVE mapUserSetChildReversed(_)
mapUserSetChildReversed(children) ==
    IF children = <<>>
    THEN <<>>
    ELSE mapUserSetChildReversed(Tail(children))
         \o mapUserSetChildLoop(<<Head(children)>>, 1, <<>>)

\* Mutation: the children of a nested rule are spliced into the parent.
RECURSIVE mapUserSetChildFlattened(_)
mapUserSetChildFlattened(children) ==
    IF children = <<>>
    THEN <<>>
    ELSE LET head == Head(children)
             mapped ==
                 IF head.kind = "rewrite" /\ mapUserSet(head.rewrite) # Nil
                 THEN mapUserSet(head.rewrite).children
                 ELSE mapUserSetChildLoop(<<head>>, 1, <<>>)
         IN  mapped \o mapUserSetChildFlattened(Tail(children))

mapUserSetChild(children) == mapUserSetChildLoop(children, 1, <<>>)

(***************************************************************************)
(* Permission mapper.                                                      *)
(***************************************************************************)
mapPermission(relation) ==
    [name    |-> relation.name,
     userSet |-> mapUserSet(relation.usersetRewrite),
     comment |-> getMetadataComments(relation.metadata)]

(***************************************************************************)
(* Definition mapper.                                                      *)
(***************************************************************************)
\* ns.GetRelationKind(r): the kind the compiler recorded for the relation.
GetRelationKind(r) == r.kind

\* fmt.Errorf("unexpected relation %q, neither permission nor relation")
UnexpectedRelation(r) ==
    [msg |-> "unexpected relation, neither permission nor relation",
     relation |-> r.name]

\* Mutation: a mapped permission or relation is put in front of its list.
RECURSIVE mapDefinitionLoopPrepend(_, _, _, _)
mapDefinitionLoopPrepend(rels, i, relations, permissions) ==
    IF i > Len(rels)
    THEN [relations |-> relations, permissions |-> permissions, err |-> Nil]
    ELSE LET r == rels[i]
             kind == GetRelationKind(r)
         IN  IF kind = "PERMISSION"
             THEN mapDefinitionLoopPrepend(rels, i + 1, relations,
                      <<mapPermission(r)>> \o permissions)
             ELSE IF kind = "RELATION"
             THEN mapDefinitionLoopPrepend(rels, i + 1,
                      <<mapRelation(r)>> \o relations, permissions)
             ELSE [relations |-> relations, permissions |-> permissions,
                   err |-> UnexpectedRelation(r)]

\* The classification loop of mapDefinition; err is set where it returns
\* early.
RECURSIVE mapDefinitionLoop(_, _, _, _)
mapDefinitionLoop(rels, i, relations, permissions) ==
    IF i > Len(rels)
    THEN [relations |-> relations, permissions |-> permissions, err |-> Nil]
    ELSE LET r == rels[i]
             kind == GetRelationKind(r)
         IN  IF kind = "PERMISSION"
             THEN mapDefinitionLoop(rels, i + 1, relations,
                                    Append(permissions, mapPermission(r)))
             ELSE IF kind = "RELATION"
             THEN mapDefinitionLoop(rels, i + 1,
                                    Append(relations, mapRelation(r)),
                                    permissions)
             ELSE [relations |-> relations, permissions |-> permissions,
                   err |-> UnexpectedRelation(r)]

\* mapDefinition returns (*Definition, error): [o, err].
mapDefinition(def) ==
    LET loop == mapDefinitionLoop(def.relation, 1, <<>>, <<>>)
        splits == SplitN(def.name, "/")
    IN  IF loop.err # Nil
        THEN [o |-> Nil, err |-> loop.err]
        ELSE [o |-> [name        |-> IF Len(splits) = 2
                                     THEN splits[2] ELSE splits[1],
                     namespace   |-> IF Len(splits) = 2
                                     THEN splits[1] ELSE <<>>,
                     relations   |-> loop.relations,
                     permissions |-> loop.permissions,
                     comment     |-> getMetadataComments(def.metadata)],
              err |-> Nil]

(***************************************************************************)
(* Caveat mapper.  parameterTypes is a Go map: a function from parameter   *)
(* names to type references.                                               *)
(***************************************************************************)
\* The orders in which range may visit the keys of a Go map.
RangeOrders(m) ==
    {o \in [1..Cardinality(DOMAIN m) -> DOMAIN m] :
        \A i, j \in DOMAIN o : i # j => o[i] # o[j]}

\* main.go: the type names, in the order range visited the map.
mapCaveat(caveat, order) ==
    [name       |-> caveat.name,
     parameters |-> [kind  |-> "list",
                     items |-> [i \in DOMAIN order |->
                                  caveat.parameterTypes[order[i]].typeName]],
     comment    |-> getMetadataComments(caveat.metadata)]

\* mapSchema.go: parameter name to type name.
mapSchema_mapCaveat(caveat) ==
    [name       |-> caveat.name,
     parameters |-> [kind    |-> "map",
                     entries |-> [key \in DOMAIN caveat.parameterTypes |->
                                    caveat.parameterTypes[key].typeName]],
     comment    |-> mapSchema_getMetadataComments(caveat.metadata)]

(***************************************************************************)
(* Document assembler.                                                     *)
(***************************************************************************)
\* fmt.Errorf("failed to export %q: %w", def.Name, err)
FailedToExport(def, err) ==
    [msg |-> "failed to export", name |-> def.name, cause |-> err]

\* The first loop of WriteSchemaTo: [definitions, err].
RECURSIVE WriteSchemaToLoop(_, _, _)
WriteSchemaToLoop(defs, i, definitions) ==
    IF i > Len(defs)
    THEN [definitions |-> definitions, err |-> Nil]
    ELSE LET m == mapDefinition(defs[i])
         IN  IF m.err # Nil
             THEN [definitions |-> definitions,
                   err |-> FailedToExport(defs[i], m.err)]
             ELSE WriteSchemaToLoop(defs, i + 1, Append(definitions, m.o))

\* Mutation: the definitions mapped before the failure are written out.
WriteSchemaToPartial(schema, orders, writer) ==
    LET loop == WriteSchemaToLoop(schema.objectDefinitions, 1, <<>>)
        caveats == [i \in 1..Len(schema.caveatDefinitions) |->
                       mapCaveat(schema.caveatDefinitions[i], orders[i])]
        data == [definitions |-> loop.definitions, caveats |-> caveats]
    IN  [err |-> loop.err, w |-> Append(writer, data)]

\* WriteSchemaTo(schema, w): [err, w], the error returned and the writer
\* after the call.  orders[i] is the order range visits the parameters of
\* the i-th caveat.  json.Marshal of the document is the written chunk.
WriteSchemaTo(schema, orders, writer) ==
    LET loop == WriteSchemaToLoop(schema.objectDefinitions, 1, <<>>)
        caveats == [i \in 1..Len(schema.caveatDefinitions) |->
                       mapCaveat(schema.caveatDefinitions[i], orders[i])]
        data == [definitions |-> loop.definitions, caveats |-> caveats]
    IN  IF loop.err # Nil
        THEN [err |-> loop.err, w |-> writer]
        ELSE [err |-> Nil, w |-> Append(writer, data)]

(***************************************************************************)
(* Inputs: what the schema compiler hands over.                            *)
(***************************************************************************)
\* A metadata bag holding one doc comment: two prefix bytes, then the text.
DocComment(text) ==
    [metadataMessage |->
        <<[typeUrl |-> DocCommentUrl, value |-> <<"T", "L">> \o text]>>]

\* The doc comment "// x".
SampleComment == DocComment(<<"/", "/", " ", "x">>)

SampleMetadata == {Nil, SampleComment}

\* corev1.AllowedRelation: the target type, the relation-or-wildcard oneof
\* and the optional required caveat.
AllowedRelations ==
    {[namespace |-> n, relationOrWildcard |-> rw, requiredCaveat |-> c] :
        n \in {"user", "group"},
        rw \in {[kind |-> "unset"], [kind |-> "wildcard"],
                [kind |-> "relation", relation |-> "..."],
                [kind |-> "relation", relation |-> "member"]},
        c \in {Nil, [caveatName |-> "ipcheck"]}}

\* The child operations, as the compiler builds them: a tuple-to-userset
\* always carries its Tupleset and its ComputedUserset.
Computed(relation) == [kind |-> "computed", relation |-> relation]

TupleTo(tupleset, computed) ==
    [kind |-> "tuple",
     tupleset |-> [relation |-> tupleset],
     computedUserset |-> [relation |-> computed]]

Nested(rewrite) == [kind |-> "rewrite", rewrite |-> rewrite]

Rule(op, child) == [op |-> op, child |-> child]

\* A storage relation and a permission, as the compiler builds them: a
\* storage relation always carries its TypeInformation.
StorageRelation(name, allowed, metadata) ==
    [name |-> name, kind |-> "RELATION",
     typeInformation |-> [allowedDirectRelations |-> allowed],
     usersetRewrite |-> Nil, metadata |-> metadata]

PermissionRelation(name, rewrite, metadata) ==
    [name |-> name, kind |-> "PERMISSION",
     typeInformation |-> Nil,
     usersetRewrite |-> rewrite, metadata |-> metadata]

UserRef ==
    [namespace |-> "user",
     relationOrWildcard |-> [kind |-> "relation", relation |-> "..."],
     requiredCaveat |-> Nil]

Viewer == StorageRelation("viewer", <<UserRef>>, SampleComment)
Editor == StorageRelation("editor", <<UserRef>>, Nil)
View == PermissionRelation("view", Rule("union", <<Computed("viewer")>>), Nil)
Edit ==
    PermissionRelation("edit",
        Rule("exclusion",
             <<Computed("editor"), TupleTo("parent", "view")>>),
        SampleComment)
\* A relation whose recorded kind is neither RELATION nor PERMISSION.
Unknown == [name |-> "bogus", kind |-> "UNKNOWN_KIND",
            typeInformation |-> Nil, usersetRewrite |-> Nil,
            metadata |-> Nil]

SampleRelations == {Viewer, Editor, View, Edit, Unknown}

NameChars == {"a", "b", "/"}

\* Every non-empty name of at most MaxNameLen characters, and "a/b/c".
QualifiedNames ==
    (SeqUpTo(NameChars, MaxNameLen) \ {<<>>})
    \cup {<<"a", "/", "b", "/", "c">>}

(***************************************************************************)
(* Definition mapper: one call of mapDefinition.                           *)
(***************************************************************************)
\* A corev1.NamespaceDefinition.
Definition(name, relation, metadata) ==
    [name |-> name, relation |-> relation, metadata |-> metadata]

InitDefinition ==
    /\ \E n \in QualifiedNames, md \in SampleMetadata :
           \E rs \in SeqUpTo(SampleRelations, MaxRels) :
               input = Definition(n, rs, md)
    /\ result = Nil
    /\ w = <<>>
    /\ pc = "call"

MapDefinition ==
    /\ pc = "call"
    /\ result' = mapDefinition(input)
    /\ pc' = "done"
    /\ UNCHANGED <<input, w>>

NextDefinition == MapDefinition

SpecDefinition == InitDefinition /\ [][NextDefinition]_vars

(***************************************************************************)
(* Relation mapper: one call of mapRelation, which maps every allowed      *)
(* relation through mapRelationType.                                       *)
(***************************************************************************)
InitRelation ==
    /\ input \in {StorageRelation("viewer", allowed, Nil) :
                     allowed \in SeqUpTo(AllowedRelations, MaxTypes)}
    /\ result = Nil
    /\ w = <<>>
    /\ pc = "call"

MapRelation ==
    /\ pc = "call"
    /\ result' = mapRelation(input)
    /\ pc' = "done"
    /\ UNCHANGED <<input, w>>

NextRelation == MapRelation

SpecRelation == InitRelation /\ [][NextRelation]_vars

(***************************************************************************)
(* Rewrite-tree mapper: one call of mapPermission on a permission whose    *)
(* rewrite rule is any tree of at most MaxOps child operations.            *)
(***************************************************************************)
Ops == {"union", "intersection", "exclusion"}

\* The child operations that hold no nested rule; "none" is a child whose
\* oneof has no shape populated.
Leaves ==
    {Computed("viewer"), Computed("editor"), TupleTo("parent", "view"),
     [kind |-> "none"]}

RECURSIVE RulesOfWeight(_)
RECURSIVE ChildrenOfWeight(_)
RECURSIVE ChildListsOfWeight(_)

\* The rules holding exactly n child operations, nested ones included.
RulesOfWeight(n) ==
    (IF n = 0 THEN {Rule("none", <<>>)} ELSE {})
    \cup {Rule(op, cs) : op \in Ops, cs \in ChildListsOfWeight(n)}

ChildrenOfWeight(m) ==
    (IF m = 1 THEN Leaves ELSE {})
    \cup {Nested(r) : r \in RulesOfWeight(m - 1)}

ChildListsOfWeight(n) ==
    IF n = 0
    THEN {<<>>}
    ELSE UNION {{<<c>> \o rest : c \in ChildrenOfWeight(m),
                                 rest \in ChildListsOfWeight(n - m)} :
                m \in 1..n}

\* The rewrite trees the specification names: an exclusion of three
\* distinct children and a union whose first child is a union of two.
ExampleRules ==
    {Rule("exclusion",
          <<Computed("viewer"), Computed("editor"),
            TupleTo("parent", "view")>>),
     Rule("union",
          <<Nested(Rule("union",
                        <<Computed("viewer"), Computed("editor")>>)),
            TupleTo("parent", "view")>>)}

\* Every rule of at most MaxOps child operations, the absent rule, the
\* rule with no operator, and the named examples.
InitPermission ==
    /\ \/ \E rule \in ExampleRules \cup {Nil, Rule("none", <<>>)} :
              input = PermissionRelation("view", rule, Nil)
       \/ \E n \in 0..MaxOps : \E op \in Ops :
              \E cs \in ChildListsOfWeight(n) :
                  input = PermissionRelation("view", Rule(op, cs), Nil)
    /\ result = Nil
    /\ w = <<>>
    /\ pc = "call"

MapPermission ==
    /\ pc = "call"
    /\ result' = mapPermission(input)
    /\ pc' = "done"
    /\ UNCHANGED <<input, w>>

NextPermission == MapPermission

SpecPermission == InitPermission /\ [][NextPermission]_vars

(***************************************************************************)
(* Comment extractor: one call of getMetadataComments on any bag,          *)
(* the absent bag and short payloads included.                             *)
(***************************************************************************)
Bytes == {"x", " "}

Messages ==
    {[typeUrl |-> DocCommentUrl, value |-> v] :
        v \in SeqUpTo(Bytes, MaxValueLen)}
    \cup {[typeUrl |-> "type.googleapis.com/impl.v1.RelationMetadata",
           value |-> <<>>]}

\* The absent bag, or a bag of at most MaxMsgs attachments.
InitComments ==
    /\ \/ input = Nil
       \/ \E ms \in SeqUpTo(Messages, MaxMsgs) :
              input = [metadataMessage |-> ms]
    /\ result = Nil
    /\ w = <<>>
    /\ pc = "call"

\* The call either panics at the slice expression or returns the string.
GetMetadataComments ==
    /\ pc = "call"
    /\ result' = IF getMetadataCommentsPanics(input)
                 THEN [panic |-> TRUE, value |-> <<>>]
                 ELSE [panic |-> FALSE, value |-> getMetadataComments(input)]
    /\ pc' = "done"
    /\ UNCHANGED <<input, w>>

NextComments == GetMetadataComments

SpecComments == InitComments /\ [][NextComments]_vars

(***************************************************************************)
(* Caveat mapper: one call of either mapCaveat of the repository.          *)
(***************************************************************************)
ParamNames == {"ip", "limit", "region"}

TypeRefs == {[typeName |-> "ipaddress"], [typeName |-> "int"]}

ParameterMaps ==
    UNION {[keys -> TypeRefs] : keys \in SUBSET ParamNames}

CaveatDefinitions ==
    {[name |-> n, parameterTypes |-> ps, metadata |-> md] :
        n \in {"ipcheck", "quota"},
        ps \in ParameterMaps,
        md \in SampleMetadata}

InitCaveat ==
    /\ input \in CaveatDefinitions
    /\ result = Nil
    /\ w = <<>>
    /\ pc = "call"

\* main.go
MapCaveat ==
    /\ pc = "call"
    /\ \E order \in RangeOrders(input.parameterTypes) :
           result' = mapCaveat(input, order)
    /\ pc' = "done"
    /\ UNCHANGED <<input, w>>

\* mapSchema.go
MapSchemaMapCaveat ==
    /\ pc = "call"
    /\ result' = mapSchema_mapCaveat(input)
    /\ pc' = "done"
    /\ UNCHANGED <<input, w>>

NextCaveat == MapCaveat \/ MapSchemaMapCaveat

SpecCaveat == InitCaveat /\ [][NextCaveat]_vars

(***************************************************************************)
(* Document assembler: one call of WriteSchemaTo on a fresh writer.        *)
(***************************************************************************)
SchemaNames == {<<"a", "/", "b">>, <<"b">>}

SchemaDefinitions ==
    {Definition(n, rs, Nil) :
        n \in SchemaNames,
        rs \in SeqUpTo({View, Unknown}, MaxRels)}

IpCheck ==
    [name |-> "ipcheck",
     parameterTypes |-> [key \in {"ip", "limit"} |->
                            IF key = "ip" THEN [typeName |-> "ipaddress"]
                                          ELSE [typeName |-> "int"]],
     metadata |-> Nil]

InitSchema ==
    /\ \E cs \in {<<>>, <<IpCheck>>} :
           \E ds \in SeqUpTo(SchemaDefinitions, MaxDefs) :
               input = [objectDefinitions |-> ds, caveatDefinitions |-> cs]
    /\ result = Nil
    /\ w = <<>>
    /\ pc = "call"

WriteSchema ==
    /\ pc = "call"
    /\ \E orders \in [1..Len(input.caveatDefinitions) ->
                          RangeOrders(IpCheck.parameterTypes)] :
           LET r == WriteSchemaTo(input, orders, w)
           IN  /\ result' = [err |-> r.err]
               /\ w' = r.w
    /\ pc' = "done"
    /\ UNCHANGED input

NextSchema == WriteSchema

SpecSchema == InitSchema /\ [][NextSchema]_vars

(***************************************************************************)
(* Properties of the definition mapper (SpecDefinition).                   *)
(***************************************************************************)
OfKind(rels, kind) == SelectSeq(rels, LAMBDA r : r.kind = kind)

NamesOf(seq) == [i \in 1..Len(seq) |-> seq[i].name]

AllClassified(rels) ==
    \A i \in 1..Len(rels) : rels[i].kind \in {"RELATION", "PERMISSION"}

\* C1: when every relation of the definition has kind RELATION or
\* PERMISSION, mapDefinition succeeds; `relations` holds exactly the
\* RELATION-kind relations and `permissions` exactly the PERMISSION-kind
\* ones, each in source order, so the two lengths add up to the number of
\* source relations and no relation is in both lists or in neither.
C1_Partition ==
    (pc = "done" /\ AllClassified(input.relation)) =>
        /\ result.err = Nil
        /\ result.o # Nil
        /\ NamesOf(result.o.relations)
               = NamesOf(OfKind(input.relation, "RELATION"))
        /\ NamesOf(result.o.permissions)
               = NamesOf(OfKind(input.relation, "PERMISSION"))
        /\ Len(result.o.relations) + Len(result.o.permissions)
               = Len(input.relation)
        /\ \A i \in 1..Len(result.o.relations) :
               \A j \in 1..Len(result.o.permissions) :
                   result.o.relations[i].name # result.o.permissions[j].name

\* Two different permissions were mapped, in source order.
C1_Witness ==
    /\ pc = "done"
    /\ input.relation = <<View, Edit>>
    /\ result.err = Nil
    /\ NamesOf(result.o.permissions) = <<"view", "edit">>
    /\ result.o.relations = <<>>

HasSeparator(s) == \E i \in 1..Len(s) : s[i] = "/"

\* C6: the qualified name is split at its first separator only: without a
\* separator the namespace is empty and the local name is the whole name;
\* with one, the namespace is the separator-free text before the first
\* separator and the local name is everything after it.
C6_SplitFirst ==
    (pc = "done" /\ result.err = Nil) =>
        /\ ~HasSeparator(result.o.namespace)
        /\ IF HasSeparator(input.name)
           THEN result.o.namespace \o <<"/">> \o result.o.name = input.name
           ELSE result.o.namespace = <<>> /\ result.o.name = input.name

\* "a/b/c" was split into ("a", "b/c").
C6_Witness ==
    /\ pc = "done"
    /\ input.name = <<"a", "/", "b", "/", "c">>
    /\ result.err = Nil
    /\ result.o.namespace = <<"a">>
    /\ result.o.name = <<"b", "/", "c">>

(***************************************************************************)
(* Properties of the type reference mapper (SpecRelation).                 *)
(***************************************************************************)
\* C7: mapRelationType maps a wildcard reference to relation "*", a named
\* sub-relation to its name except "..." which becomes "", the caveat to
\* the required caveat's name or "" when there is none, and the type to the
\* target type name unchanged.
C7_RelationType ==
    pc = "done" =>
        LET allowed == input.typeInformation.allowedDirectRelations
        IN  /\ Len(result.types) = Len(allowed)
            /\ \A i \in 1..Len(allowed) :
                   LET a == allowed[i]
                       t == result.types[i]
                   IN  /\ t.type = a.namespace
                       /\ a.relationOrWildcard.kind = "wildcard"
                              => t.relation = "*"
                       /\ (a.relationOrWildcard.kind = "relation"
                           /\ a.relationOrWildcard.relation = "...")
                              => t.relation = ""
                       /\ (a.relationOrWildcard.kind = "relation"
                           /\ a.relationOrWildcard.relation # "...")
                              => t.relation = a.relationOrWildcard.relation
                       /\ a.requiredCaveat = Nil => t.caveat = ""
                       /\ a.requiredCaveat # Nil
                              => t.caveat = a.requiredCaveat.caveatName

\* A self reference and a caveated wildcard were mapped.
C7_Witness ==
    /\ pc = "done"
    /\ Len(result.types) = 2
    /\ input.typeInformation.allowedDirectRelations[1].relationOrWildcard
           = [kind |-> "relation", relation |-> "..."]
    /\ result.types[1].relation = ""
    /\ input.typeInformation.allowedDirectRelations[2].relationOrWildcard
           = [kind |-> "wildcard"]
    /\ result.types[2] = [type |-> "group", relation |-> "*",
                          caveat |-> "ipcheck"]

(***************************************************************************)
(* Properties of the document assembler (SpecSchema).                      *)
(***************************************************************************)
Offending(def) ==
    \E i \in 1..Len(def.relation) :
        def.relation[i].kind \notin {"RELATION", "PERMISSION"}

\* C2: when some relation of some definition has a kind that is neither
\* RELATION nor PERMISSION, WriteSchemaTo returns an error naming the
\* first offending definition and writes nothing to the writer.
C2_NoPartialDocument ==
    LET defs == input.objectDefinitions
    IN  (pc = "done" /\ \E i \in 1..Len(defs) : Offending(defs[i])) =>
            LET first == CHOOSE i \in 1..Len(defs) :
                             /\ Offending(defs[i])
                             /\ \A j \in 1..(i - 1) : ~Offending(defs[j])
            IN  /\ result.err # Nil
                /\ result.err.msg = "failed to export"
                /\ result.err.name = defs[first].name
                /\ result.err.cause.relation = "bogus"
                /\ w = <<>>

\* The second definition failed at its second relation, after the first
\* definition and the first relation had been mapped.
C2_Witness ==
    /\ pc = "done"
    /\ Len(input.objectDefinitions) = 2
    /\ input.objectDefinitions[1].relation = <<View, View>>
    /\ input.objectDefinitions[1].name = <<"a", "/", "b">>
    /\ input.objectDefinitions[2].relation = <<View, Unknown>>
    /\ input.objectDefinitions[2].name = <<"b">>
    /\ result.err # Nil
    /\ result.err.name = <<"b">>
    /\ w = <<>>

(***************************************************************************)
(* Properties of the rewrite-tree mapper (SpecPermission).                 *)
(***************************************************************************)
HasOperator(rule) == rule # Nil /\ rule.op \in Ops

Populated(children) == SelectSeq(children, LAMBDA c : c.kind # "none")

\* The UserSet one populated child operation stands for.
ChildImage(c) ==
    CASE c.kind = "computed" -> UserSet("", c.relation, "", <<>>)
      [] c.kind = "tuple" ->
            UserSet("", c.tupleset.relation, c.computedUserset.relation,
                    <<>>)
      [] c.kind = "rewrite" -> mapUserSet(c.rewrite)

\* C3: for a rule of any operator whose children all have a shape
\* populated, the output is an operator node of the same operation whose
\* i-th child is the image of the i-th input child.
C3_OrderPreserved ==
    (/\ pc = "done"
     /\ HasOperator(input.usersetRewrite)
     /\ Populated(input.usersetRewrite.child) = input.usersetRewrite.child)
    =>
        /\ result.userSet # Nil
        /\ result.userSet.operation = input.usersetRewrite.op
        /\ Len(result.userSet.children) = Len(input.usersetRewrite.child)
        /\ \A i \in 1..Len(input.usersetRewrite.child) :
               result.userSet.children[i]
                   = ChildImage(input.usersetRewrite.child[i])

\* exclusion [viewer, editor, parent->view] kept its three children in
\* that sequence.
C3_Witness ==
    /\ pc = "done"
    /\ input.usersetRewrite
           = Rule("exclusion",
                  <<Computed("viewer"), Computed("editor"),
                    TupleTo("parent", "view")>>)
    /\ result.userSet.operation = "exclusion"
    /\ result.userSet.children
           = <<UserSet("", "viewer", "", <<>>),
               UserSet("", "editor", "", <<>>),
               UserSet("", "parent", "view", <<>>)>>

\* The output node has the rule's operation and as many children as the
\* rule, and every nested rule is mirrored by the child at its place.
RECURSIVE Mirrors(_, _)
Mirrors(rule, us) ==
    /\ HasOperator(rule)
    /\ us # Nil
    /\ us.operation = rule.op
    /\ Len(us.children) = Len(rule.child)
    /\ \A i \in 1..Len(rule.child) :
           rule.child[i].kind = "rewrite"
               => Mirrors(rule.child[i].rewrite, us.children[i])

RECURSIVE MirrorsPopulated(_, _)
MirrorsPopulated(rule, us) ==
    /\ us # Nil
    /\ us.operation = rule.op
    /\ LET pop == Populated(rule.child)
       IN  /\ Len(us.children) = Len(pop)
           /\ \A i \in 1..Len(pop) :
                  IF pop[i].kind = "rewrite"
                  THEN IF HasOperator(pop[i].rewrite)
                       THEN MirrorsPopulated(pop[i].rewrite, us.children[i])
                       ELSE us.children[i] = Nil
                  ELSE /\ us.children[i] # Nil
                       /\ us.children[i].operation = ""
                       /\ us.children[i].children = <<>>

RECURSIVE NoNilEntry(_)
NoNilEntry(us) ==
    us # Nil =>
        \A i \in 1..Len(us.children) :
            us.children[i] # Nil /\ NoNilEntry(us.children[i])

\* The child operations that are not malformed: a shape is populated and,
\* for a nested rule, an operator is populated.
WellFormed(children) ==
    SelectSeq(children,
              LAMBDA c : /\ c.kind # "none"
                         /\ c.kind = "rewrite" => HasOperator(c.rewrite))

\* C9: a malformed rewrite node is omitted at every position: a rule
\* without operator gives an absent userSet, and neither a child without
\* shape nor a nested rule without operator leaves an entry (a nil entry
\* included) in the parent's children.
C9_MalformedOmitted ==
    pc = "done" =>
        /\ ~HasOperator(input.usersetRewrite) => result.userSet = Nil
        /\ HasOperator(input.usersetRewrite) =>
               /\ result.userSet # Nil
               /\ Len(result.userSet.children)
                      = Len(WellFormed(input.usersetRewrite.child))
               /\ NoNilEntry(result.userSet)

\* The nodes of a tree; a nil entry of a children list is no node.
RECURSIVE Nodes(_)
Nodes(us) ==
    IF us = Nil
    THEN {}
    ELSE {us} \cup UNION {Nodes(us.children[i]) : i \in 1..Len(us.children)}

IsOperatorNode(u) ==
    u.operation \in Ops /\ u.relation = "" /\ u.permission = ""

IsLeafNode(u) ==
    u.operation = "" /\ u.children = <<>> /\ u.relation # ""

\* C10: every UserSet node of a produced tree is an operator node
\* (operation set, relation and permission empty) or a leaf node (no
\* operation, no children, relation set), and never both.
C10_OneShape ==
    pc = "done" =>
        \A u \in Nodes(result.userSet) :
            /\ IsOperatorNode(u) \/ IsLeafNode(u)
            /\ ~(IsOperatorNode(u) /\ IsLeafNode(u))

\* A tree with a nested operator node, a direct and an indirect leaf.
C10_Witness ==
    /\ pc = "done"
    /\ result.userSet # Nil
    /\ \E u \in Nodes(result.userSet) :
           u # result.userSet /\ IsOperatorNode(u)
    /\ \E u \in Nodes(result.userSet) : IsLeafNode(u) /\ u.permission = ""
    /\ \E u \in Nodes(result.userSet) : IsLeafNode(u) /\ u.permission # ""

(***************************************************************************)
(* Properties of the comment extractor (SpecComments).                     *)
(***************************************************************************)
\* C8: getMetadataComments never fails: for every metadata bag, the absent
\* bag and a doc comment shorter than the stripped 2-byte prefix included,
\* it returns a string and does not abort.
C8_NeverFails ==
    pc = "done" => result.panic = FALSE

(***************************************************************************)
(* Properties of the caveat mapper (SpecCaveat).                           *)
(***************************************************************************)
\* C5: mapCaveat maps the declared parameters to a mapping from parameter
\* name to type name with exactly the source's keys.
C5_ParametersByName ==
    pc = "done" =>
        /\ result.parameters.kind = "map"
        /\ result.parameters.entries
               = [key \in DOMAIN input.parameterTypes |->
                     input.parameterTypes[key].typeName]

====
